---- MODULE Spec2Model ----
(***************************************************************************)
(* Runtime initialisation coordinator of Proma (initializeRuntime,         *)
(* reinitializeRuntime, getRuntimeStatus, isRuntimeInitialized) together   *)
(* with the WSL detector it calls.                                         *)
(*                                                                         *)
(* One state of the model is one point at which other application code can *)
(* run: every action is a synchronous segment of JavaScript, from the call *)
(* of a function or the settling of an awaited promise up to the next      *)
(* await that really suspends (a skipped step has no await) or the return. *)
(*                                                                         *)
(* Conventions.  A nullable value is a sequence of length at most one:     *)
(* Null is <<>> and Some(v) is <<v>>.  A text that the code searches with   *)
(* String.includes is a sequence of pieces, cut so that every searched     *)
(* word is one piece.  The user-facing messages of the source are Chinese  *)
(* literals; they are written here as their English reading.               *)
(***************************************************************************)
EXTENDS Integers, Sequences, FiniteSets, TLC

\* ------------------------------------------------------------------ bounds
\* Number of initializeRuntime / reinitializeRuntime calls made in one run
\* of the application (they may overlap).
MaxCalls == 2

\* ------------------------------------------------------------- JS values
Null == <<>>
Undefined == <<>>
Some(v) == <<v>>

\* String.prototype.includes on a text given as a sequence of pieces.
includes(text, word) == \E i \in 1..Len(text) : text[i] = word

\* ------------------------------------------------------------------ types
\* packages/shared/src/types/runtime.ts
Platform == {"darwin", "linux", "win32"}

SkipFlags ==
  {"skipEnvLoad", "skipNodeDetection", "skipBunDetection",
   "skipGitDetection", "skipShellDetection"}

\* An absent (undefined) optional flag is falsy: it is FALSE here.
RuntimeInitOptions == [SkipFlags -> BOOLEAN]

\* The option objects the callers pass: no flag, one flag, or every flag.
OptionChoices ==
  {o \in RuntimeInitOptions :
     Cardinality({f \in SkipFlags : o[f]}) \in {0, 1, Cardinality(SkipFlags)}}

\* ------------------------------------------------------------------ state
VARIABLES
  host,               \* the machine: platform and what is installed on it
  processEnv,         \* process.env: "base" as inherited, "loaded" once the
                      \* login shell's variables have been imported
  now,                \* Date.now(): a call is made later than the calls before it
  runtimeStatusCache, \* let runtimeStatusCache: RuntimeStatus | null
  isInitialized,      \* let isInitialized
  call,               \* the activations of initializeRuntime, by call number
  observed,           \* the accessor call made in the latest step, if any
  editor              \* a ChatMessageItem of the renderer: its message, its
                      \* isInlineEditing prop and its state

vars ==
  <<host, processEnv, now, runtimeStatusCache, isInitialized, call, observed,
    editor>>

Calls == 1..MaxCalls

\* ------------------------------------------------ wsl-detector.ts: parser
\* A line of output is a text: a sequence of pieces, each either the
\* whitespace piece " " or a fragment of a word; the marker "*" is a piece.
\* The output is the sequence of its lines (output.split('\n')).
Blank == " "

RECURSIVE trimStart(_)
trimStart(line) ==
  IF line # <<>> /\ Head(line) = Blank THEN trimStart(Tail(line)) ELSE line

RECURSIVE trimEnd(_)
trimEnd(line) ==
  IF line # <<>> /\ line[Len(line)] = Blank
    THEN trimEnd(SubSeq(line, 1, Len(line) - 1))
    ELSE line

\* String.prototype.trim
trim(line) == trimEnd(trimStart(line))

\* line.startsWith('*')
startsWithStar(line) == line # <<>> /\ Head(line) = "*"

\* line.replace(/^\*\s*/, '').trim()
cleanLineOf(line) ==
  trim(IF startsWithStar(line) THEN trimStart(Tail(line)) ELSE line)

\* cleanLine.split(/\s+/): the maximal runs of non-blank pieces.  The empty
\* string splits into one empty part.
RECURSIVE splitRuns(_, _, _)
splitRuns(line, current, parts) ==
  IF line = <<>>
    THEN IF current = <<>> THEN parts ELSE Append(parts, current)
    ELSE IF Head(line) = Blank
      THEN splitRuns(Tail(line), <<>>,
                     IF current = <<>> THEN parts ELSE Append(parts, current))
      ELSE splitRuns(Tail(line), Append(current, Head(line)), parts)

splitWhitespace(cleanLine) ==
  IF cleanLine = <<>> THEN << <<>> >> ELSE splitRuns(cleanLine, <<>>, <<>>)

\* output.split('\n').map((line) => line.trim()).filter(Boolean)
nonEmptyLines(output) ==
  LET trimmed == [i \in 1..Len(output) |-> trim(output[i])]
      nonEmpty(line) == line # <<>>
  IN  SelectSeq(trimmed, nonEmpty)

\* The title row is any line that includes "NAME", "STATE" or "VERSION".
isDataLine(line) ==
  /\ ~includes(line, "NAME")
  /\ ~includes(line, "STATE")
  /\ ~includes(line, "VERSION")

dataLinesOf(output) == SelectSeq(nonEmptyLines(output), isDataLine)

\* Number.parseInt(versionStr, 10) on the two strings the parser accepts.
parseVersion(versionStr) == IF versionStr = <<"1">> THEN 1 ELSE 2

\* C19 mutant: the version is taken from any row that has one.
parseLineOfAnyRow(acc, line) ==
  LET isDefault == startsWithStar(line)
      parts == splitWhitespace(cleanLineOf(line))
      distroName == parts[1]
      versionStr == parts[Len(parts)]
  IN  IF Len(parts) < 3 THEN acc
      ELSE IF distroName = <<>> THEN acc
      ELSE [version |->
              IF versionStr = <<"1">> \/ versionStr = <<"2">>
                THEN Some(parseVersion(versionStr))
                ELSE acc.version,
            defaultDistro |->
              IF isDefault THEN Some(distroName) ELSE acc.defaultDistro,
            distros |-> Append(acc.distros, distroName)]

\* One iteration of the for loop over dataLines: acc is the triple
\* (primaryVersion, defaultDistro, distros) before the line.
parseLine(acc, line) ==
  LET isDefault == startsWithStar(line)
      parts == splitWhitespace(cleanLineOf(line))
      distroName == parts[1]
      versionStr == parts[Len(parts)]
  IN  IF Len(parts) < 3 THEN acc
      ELSE IF distroName = <<>> THEN acc
      ELSE [version |->
              IF isDefault /\ (versionStr = <<"1">> \/ versionStr = <<"2">>)
                THEN Some(parseVersion(versionStr))
                ELSE acc.version,
            defaultDistro |->
              IF isDefault THEN Some(distroName) ELSE acc.defaultDistro,
            distros |-> Append(acc.distros, distroName)]

RECURSIVE parseLines(_, _)
parseLines(acc, lines) ==
  IF lines = <<>> THEN acc
  ELSE parseLines(parseLine(acc, Head(lines)), Tail(lines))

parseWslListOutput(output) ==
  parseLines([version |-> Null, defaultDistro |-> Null, distros |-> <<>>],
             dataLinesOf(output))

\* ---------------------------------------------- wsl-detector.ts: detectWsl
\* What execSync('chcp 65001 > nul && wsl.exe --list --verbose') does on
\* the machine: it returns the output, or throws an Error with a message.
Returned(output) == [threw |-> FALSE, text |-> output]
Threw(message) == [threw |-> TRUE, text |-> message]

TitleRow == <<Blank, Blank, "NAME", Blank, "STATE", Blank, "VERSION">>

Row(isDefault, name, state, version) ==
  <<IF isDefault THEN "*" ELSE Blank, Blank, name, Blank, state, Blank,
    version>>

\* The listing of the source's comment (wsl-detector.ts lines 21 to 23).
ExampleListing ==
  <<TitleRow,
    Row(TRUE, "Ubuntu", "Running", "2"),
    Row(FALSE, "Debian", "Stopped", "1")>>

NotRecognizedMessage ==
  <<"'", "wsl.exe", "' is ", "not recognized",
    " as an internal or external command">>

TimedOutMessage == <<"spawnSync cmd.exe ", "ETIMEDOUT">>

\* C4 mutant: the unavailable status is returned without its error.
UnavailableWslWithoutError(error) ==
  [available |-> FALSE,
   version |-> Null,
   defaultDistro |-> Null,
   distros |-> <<>>,
   error |-> Null]

\* This status is returned on three paths of detectWsl, with three errors.
UnavailableWsl(error) ==
  [available |-> FALSE,
   version |-> Null,
   defaultDistro |-> Null,
   distros |-> <<>>,
   error |-> Some(error)]

NonWindowsError == <<"not a Windows platform">>
NoDistroError == <<"WSL is installed but no Linux distribution is installed">>
NotInstalledError == <<"WSL is not installed">>
DetectionFailedPrefix == <<"WSL detection failed: ">>

\* C18 mutant: the output is taken as a success without a look at the
\* number of distributions.
detectWslParsedUnchecked(output) ==
  LET parsed == parseWslListOutput(output)
  IN  [available |-> TRUE,
       version |-> parsed.version,
       defaultDistro |-> parsed.defaultDistro,
       distros |-> parsed.distros,
       error |-> Null]

\* The body of the try block after execSync returned.
detectWslParsed(output) ==
  LET parsed == parseWslListOutput(output)
  IN  IF Len(parsed.distros) = 0
        THEN UnavailableWsl(NoDistroError)
        ELSE [available |-> TRUE,
              version |-> parsed.version,
              defaultDistro |-> parsed.defaultDistro,
              distros |-> parsed.distros,
              error |-> Null]

\* C20 mutant: a message that names wsl.exe is enough for "not installed".
detectWslCaughtOnEitherWord(errorMessage) ==
  IF \/ includes(errorMessage, "wsl.exe")
     \/ includes(errorMessage, "not found")
     \/ includes(errorMessage, "not recognized")
    THEN UnavailableWsl(NotInstalledError)
    ELSE UnavailableWsl(DetectionFailedPrefix \o errorMessage)

\* The catch block.
detectWslCaught(errorMessage) ==
  IF /\ includes(errorMessage, "wsl.exe")
     /\ (includes(errorMessage, "not found")
           \/ includes(errorMessage, "not recognized"))
    THEN UnavailableWsl(NotInstalledError)
    ELSE UnavailableWsl(DetectionFailedPrefix \o errorMessage)

\* C21 mutant: detectWsl without the test of the platform.
detectWslOnAnyPlatform(platform, exec) ==
  IF exec.threw THEN detectWslCaught(exec.text)
  ELSE detectWslParsed(exec.text)

\* detectWsl on a platform, where exec is what execSync does when called.
detectWsl(platform, exec) ==
  IF platform # "win32" THEN UnavailableWsl(NonWindowsError)
  ELSE IF exec.threw THEN detectWslCaught(exec.text)
  ELSE detectWslParsed(exec.text)

\* ---------------------------------------------------------- the machine
\* What wsl.exe answers on the machines considered: absent, hanging until
\* the timeout, present with no distribution, and three listings whose
\* default distribution is at version 2, at version 1 and not marked.
WslExeResults ==
  {Threw(NotRecognizedMessage),
   Threw(TimedOutMessage),
   Returned(<<TitleRow>>),
   Returned(ExampleListing),
   Returned(<<TitleRow, Row(TRUE, "Ubuntu", "Running", "1")>>),
   Returned(<<TitleRow, Row(FALSE, "Ubuntu", "Running", "2")>>)}

\* toolchain: where node, bun and git are installed: in a directory of the
\* inherited PATH, in one only the login shell adds to PATH, or nowhere.
\* shellEnv: whether the login shell's environment can be read.
\* Git Bash and wsl.exe exist on Windows only.
AllHosts ==
  [platform : Platform,
   toolchain : {"PATH", "login", "absent"},
   shellEnv : {"imports", "fails"},
   gitBash : BOOLEAN,
   wslExe : WslExeResults]

\* The machines considered.  A Windows machine differs from a fully
\* equipped one (tool chain on PATH, shell environment readable, Git Bash
\* and the example WSL listing) in its tool chain and shell environment or
\* in its two shells; the coordinator passes no result of one detector to
\* another, so the two groups do not interact.
Hosts ==
  {h \in AllHosts :
     IF h.platform = "win32"
       THEN \/ h.gitBash /\ h.wslExe = Returned(ExampleListing)
            \/ h.toolchain = "PATH" /\ h.shellEnv = "imports"
       ELSE ~h.gitBash /\ h.wslExe = Threw(NotRecognizedMessage)}

\* Whether a process with environment env finds the tool chain on its PATH.
onPath(h, env) ==
  h.toolchain = "PATH" \/ (h.toolchain = "login" /\ env = "loaded")

\* ------------------------------------- the detectors outside this source
\* shell-env.ts, loadShellEnv: ShellEnvResult.
loadShellEnv(h) ==
  IF h.shellEnv = "imports"
    THEN [success |-> TRUE, loadedCount |-> 1, error |-> Null]
    ELSE [success |-> FALSE, loadedCount |-> 0,
          error |-> Some(<<"could not read the shell environment">>)]

\* node-detector.ts, detectNodeRuntime: NodeRuntimeStatus.
detectNodeRuntime(h, env) ==
  IF onPath(h, env)
    THEN [available |-> TRUE, version |-> Some(<<"20.11.0">>),
          path |-> Some(<<"/usr/local/bin/node">>), error |-> Null]
    ELSE [available |-> FALSE, version |-> Null, path |-> Null,
          error |-> Some(<<"Node.js not found">>)]

\* bun-finder.ts, detectBunRuntime: BunRuntimeStatus.
detectBunRuntime(h, env) ==
  IF onPath(h, env)
    THEN [available |-> TRUE, path |-> Some(<<"/usr/local/bin/bun">>),
          version |-> Some(<<"1.1.0">>), source |-> Some("system"),
          error |-> Null]
    ELSE [available |-> FALSE, path |-> Null, version |-> Null,
          source |-> Null,
          error |-> Some(<<"Bun not found: tried system, bundled, vendor">>)]

\* git-detector.ts, detectGitRuntime: GitRuntimeStatus.
detectGitRuntime(h, env) ==
  IF onPath(h, env)
    THEN [available |-> TRUE, version |-> Some(<<"2.43.0">>),
          path |-> Some(<<"/usr/bin/git">>), error |-> Null]
    ELSE [available |-> FALSE, version |-> Null, path |-> Null,
          error |-> Some(<<"Git not found">>)]

\* git-bash-detector.ts, detectGitBash: GitBashStatus.
detectGitBash(h) ==
  IF h.platform = "win32" /\ h.gitBash
    THEN [available |-> TRUE,
          path |-> Some(<<"C:\\Program Files\\Git\\bin\\bash.exe">>),
          version |-> Some(<<"5.2.15">>), error |-> Null]
    ELSE [available |-> FALSE, path |-> Null, version |-> Null,
          error |-> Some(<<"Git Bash not found">>)]

\* ------------------------------------------- coordinator: initializeRuntime
\* The fixed records substituted for a skipped detector (lines 58 to 84).
SkippedNodeStatus ==
  [available |-> FALSE, path |-> Null, version |-> Null,
   error |-> Some(<<"skipped ", "Node.js", " detection">>)]

SkippedBunStatus ==
  [available |-> FALSE, path |-> Null, version |-> Null, source |-> Null,
   error |-> Some(<<"skipped ", "Bun", " detection">>)]

SkippedGitStatus ==
  [available |-> FALSE, version |-> Null, path |-> Null,
   error |-> Some(<<"skipped ", "Git", " detection">>)]

\* C10 mutant: the order of the source's comment (Git Bash > WSL 2 > WSL 1)
\* misread as WSL 2 first.
recommendedWsl2First(gitBashStatus, wslStatus) ==
  IF wslStatus.available /\ wslStatus.version = Some(2) THEN Some("wsl")
  ELSE IF gitBashStatus.available THEN Some("git-bash")
  ELSE IF wslStatus.available THEN Some("wsl")
  ELSE Null

\* Lines 96 to 101: let recommended.
recommendedOf(gitBashStatus, wslStatus) ==
  IF gitBashStatus.available THEN Some("git-bash")
  ELSE IF wslStatus.available THEN Some("wsl")
  ELSE Null

\* Lines 103 to 107.
ShellEnvironmentStatusOf(gitBashStatus, wslStatus) ==
  [gitBash |-> gitBashStatus,
   wsl |-> wslStatus,
   recommended |-> recommendedOf(gitBashStatus, wslStatus)]

\* An activation of initializeRuntime: where it is suspended (pc), its
\* parameter and locals, and the value its pending await will produce.
\* invoked, before, envBefore, overlapped, caught and result are records of
\* what the activation did: the functions it has called, the cache and the
\* process environment when it was called, whether another activation was
\* in progress at some time during it, whether one of its catch blocks ran,
\* and the status it returned.
Unassigned == <<>>

NoOptions == [f \in SkipFlags |-> FALSE]

IdleCall ==
  [pc |-> "idle", options |-> NoOptions,
   envLoaded |-> FALSE,
   nodeStatus |-> Unassigned, bunStatus |-> Unassigned,
   gitStatus |-> Unassigned, gitBashStatus |-> Unassigned,
   shellEnvironmentStatus |-> Undefined,
   awaited |-> Unassigned,
   invoked |-> {}, before |-> Null, envBefore |-> "base",
   overlapped |-> FALSE, caught |-> FALSE, result |-> Null]

\* Suspend activation l at the await of fn, whose promise will yield value.
awaiting(l, fn, value) ==
  [l EXCEPT !.pc = fn, !.awaited = Some(value), !.invoked = @ \cup {fn}]

\* The synchronous run of initializeRuntime from a line on, up to the next
\* await or to the construction of the status (pc "assemble").  h is the
\* machine and env the process environment a called detector reads.

\* From line 87: shell environment detection.
fromShellDetection(l, h) ==
  IF h.platform = "win32" /\ ~l.options["skipShellDetection"]
    THEN awaiting(l, "detectGitBash", detectGitBash(h))
    ELSE [l EXCEPT !.pc = "assemble"]

\* C7 mutant: the Git step tests the flag of the Node.js step.
fromGitDetectionWrongFlag(l, h, env) ==
  IF l.options["skipNodeDetection"]
    THEN fromShellDetection([l EXCEPT !.gitStatus = Some(SkippedGitStatus)], h)
    ELSE awaiting(l, "detectGitRuntime", detectGitRuntime(h, env))

\* From line 77: Git.
fromGitDetection(l, h, env) ==
  IF l.options["skipGitDetection"]
    THEN fromShellDetection([l EXCEPT !.gitStatus = Some(SkippedGitStatus)], h)
    ELSE awaiting(l, "detectGitRuntime", detectGitRuntime(h, env))

\* C12 mutant: the detections after Node.js are given up when Node.js was
\* not found.
fromBunDetectionUnlessNodeFailed(l, h, env) ==
  IF ~l.nodeStatus[1].available /\ ~l.options["skipNodeDetection"]
    THEN [l EXCEPT !.bunStatus = Some(SkippedBunStatus),
                   !.gitStatus = Some(SkippedGitStatus),
                   !.pc = "assemble"]
    ELSE IF l.options["skipBunDetection"]
      THEN fromGitDetection([l EXCEPT !.bunStatus = Some(SkippedBunStatus)],
                            h, env)
      ELSE awaiting(l, "detectBunRuntime", detectBunRuntime(h, env))

\* C8 mutant: the Bun step is skipped by either of two flags.
fromBunDetectionTwoFlags(l, h, env) ==
  IF l.options["skipBunDetection"] \/ l.options["skipNodeDetection"]
    THEN fromGitDetection([l EXCEPT !.bunStatus = Some(SkippedBunStatus)],
                          h, env)
    ELSE awaiting(l, "detectBunRuntime", detectBunRuntime(h, env))

\* From line 66: Bun.
fromBunDetection(l, h, env) ==
  IF l.options["skipBunDetection"]
    THEN fromGitDetection([l EXCEPT !.bunStatus = Some(SkippedBunStatus)],
                          h, env)
    ELSE awaiting(l, "detectBunRuntime", detectBunRuntime(h, env))

\* From line 56: Node.js.
fromNodeDetection(l, h, env) ==
  IF l.options["skipNodeDetection"]
    THEN fromBunDetection([l EXCEPT !.nodeStatus = Some(SkippedNodeStatus)],
                          h, env)
    ELSE awaiting(l, "detectNodeRuntime", detectNodeRuntime(h, env))

\* C11 mutant: the loader is called only while the login shell's variables
\* have not been imported yet.
fromEnvLoadOnce(l, h, env) ==
  IF ~l.options["skipEnvLoad"] /\ env = "base"
    THEN [l EXCEPT !.pc = "loadShellEnv", !.invoked = @ \cup {"loadShellEnv"}]
    ELSE fromNodeDetection(l, h, env)

\* From line 43: the shell environment.  The loader's result is not known
\* before it settles.
fromEnvLoad(l, h, env) ==
  IF ~l.options["skipEnvLoad"]
    THEN [l EXCEPT !.pc = "loadShellEnv", !.invoked = @ \cup {"loadShellEnv"}]
    ELSE fromNodeDetection(l, h, env)

\* C3 mutant: the cached object is patched in place instead of replaced,
\* and the patch forgets git.
RuntimeStatusPatched(l, ref, time) ==
  IF runtimeStatusCache = Null
    THEN [node |-> l.nodeStatus[1], bun |-> l.bunStatus[1],
          git |-> l.gitStatus[1], shell |-> l.shellEnvironmentStatus,
          envLoaded |-> l.envLoaded, initializedAt |-> time, ref |-> ref]
    ELSE [runtimeStatusCache[1] EXCEPT
            !.node = l.nodeStatus[1], !.bun = l.bunStatus[1],
            !.shell = l.shellEnvironmentStatus,
            !.envLoaded = l.envLoaded, !.initializedAt = time]

\* Lines 122 to 129: the status object.  ref is the identity of the object:
\* each activation allocates its own.
RuntimeStatusOf(l, ref, time) ==
  [node |-> l.nodeStatus[1],
   bun |-> l.bunStatus[1],
   git |-> l.gitStatus[1],
   shell |-> l.shellEnvironmentStatus,
   envLoaded |-> l.envLoaded,
   initializedAt |-> time,
   ref |-> ref]

\* An activation that returned status.  Its locals are kept as the record
\* of what this run obtained.
returned(l, status) ==
  [l EXCEPT !.pc = "done", !.awaited = Unassigned, !.result = Some(status)]

\* An activation that an exception left.
thrown(l) == [l EXCEPT !.pc = "failed", !.awaited = Unassigned]

\* Lines 131 to 147 when the run reached the construction of the status:
\* cache it, set the flag, return it.  Otherwise the activation is suspended
\* and the module variables are as the segment left them (cache0, flag0);
\* calls is the record of the activations before the step.
\* time is what Date.now() returns in this segment.
proceed(c, l, calls, cache0, flag0, time) ==
  IF l.pc = "assemble"
    THEN LET runtimeStatus == RuntimeStatusOf(l, c, time)
         IN  /\ runtimeStatusCache' = Some(runtimeStatus)
             /\ isInitialized' = TRUE
             /\ call' = [calls EXCEPT ![c] = returned(l, runtimeStatus)]
    ELSE /\ runtimeStatusCache' = cache0
         /\ isInitialized' = flag0
         /\ call' = [calls EXCEPT ![c] = l]

\* ---------------------------------------------------------------- actions
NoObservation == [op |-> "none", value |-> Null]

\* Calls are numbered in the order they are made.
isNextCall(c) ==
  /\ call[c].pc = "idle"
  /\ \A b \in Calls : b < c => call[b].pc # "idle"

\* An activation that has been called and has not returned or thrown.
inProgress(l) == l.pc \notin {"idle", "done", "failed"}

\* The record of the activations when call c is made.
whenCalled(c) ==
  [b \in Calls |->
     IF inProgress(call[b]) THEN [call[b] EXCEPT !.overlapped = TRUE]
     ELSE call[b]]

\* The new activation c.
called(c, options) ==
  [IdleCall EXCEPT !.options = options,
                   !.before = runtimeStatusCache,
                   !.envBefore = processEnv,
                   !.overlapped = \E b \in Calls : inProgress(call[b])]

\* initializeRuntime(options) is called: lines 39 to the first await.
InitializeRuntime(c, options) ==
  /\ isNextCall(c)
  /\ proceed(c, fromEnvLoad(called(c, options), host, processEnv),
             whenCalled(c), runtimeStatusCache, isInitialized, now + 1)
  /\ now' = now + 1
  /\ observed' = NoObservation
  /\ UNCHANGED <<editor, host, processEnv>>

\* C22 mutant: reinitializeRuntime clears the cache and forgets the flag.
ReinitializeRuntimeKeepingFlag(c, options) ==
  /\ isNextCall(c)
  /\ proceed(c, fromEnvLoad(called(c, options), host, processEnv),
             whenCalled(c), Null, isInitialized, now + 1)
  /\ now' = now + 1
  /\ observed' = NoObservation
  /\ UNCHANGED <<editor, host, processEnv>>

\* reinitializeRuntime(options) is called: lines 175 to 177, then
\* initializeRuntime to its first await.
ReinitializeRuntime(c, options) ==
  /\ isNextCall(c)
  /\ proceed(c, fromEnvLoad(called(c, options), host, processEnv),
             whenCalled(c), Null, FALSE, now + 1)
  /\ now' = now + 1
  /\ observed' = NoObservation
  /\ UNCHANGED <<editor, host, processEnv>>

\* How an awaited promise settles.  A detector reports what it finds in its
\* status; it rejects only on an unexpected failure.
Settlements == {"fulfilled", "rejected"}

\* C13 mutant: await loadShellEnv() outside a try block.
LoadShellEnvSettlesUncaught(c) ==
  /\ call[c].pc = "loadShellEnv"
  /\ \E how \in Settlements :
       IF how = "fulfilled"
         THEN LET shellEnvResult == loadShellEnv(host)
                  env == IF shellEnvResult.success THEN "loaded" ELSE processEnv
                  l == [call[c] EXCEPT !.envLoaded = shellEnvResult.success]
              IN  /\ processEnv' = env
                  /\ proceed(c, fromNodeDetection(l, host, env),
                             call, runtimeStatusCache, isInitialized, now)
         ELSE /\ call' = [call EXCEPT ![c] = thrown(call[c])]
              /\ UNCHANGED <<processEnv, runtimeStatusCache, isInitialized>>
  /\ observed' = NoObservation
  /\ UNCHANGED <<editor, host, now>>

\* Line 48 resumes: await loadShellEnv(), in try/catch (lines 47 to 53).
LoadShellEnvSettles(c) ==
  /\ call[c].pc = "loadShellEnv"
  /\ \E how \in Settlements :
       LET shellEnvResult == loadShellEnv(host)
           env == IF how = "fulfilled" /\ shellEnvResult.success
                    THEN "loaded" ELSE processEnv
           l == IF how = "fulfilled"
                  THEN [call[c] EXCEPT !.envLoaded = shellEnvResult.success]
                  ELSE [call[c] EXCEPT !.envLoaded = FALSE, !.caught = TRUE]
       IN  /\ processEnv' = env
           /\ proceed(c, fromNodeDetection(l, host, env),
                      call, runtimeStatusCache, isInitialized, now)
  /\ observed' = NoObservation
  /\ UNCHANGED <<editor, host, now>>

\* Line 64 resumes: await detectNodeRuntime().
DetectNodeRuntimeSettles(c) ==
  /\ call[c].pc = "detectNodeRuntime"
  /\ \E how \in Settlements :
       IF how = "fulfilled"
         THEN proceed(c,
                fromBunDetection(
                  [call[c] EXCEPT !.nodeStatus = call[c].awaited,
                                  !.awaited = Unassigned],
                  host, processEnv),
                call, runtimeStatusCache, isInitialized, now)
         ELSE /\ call' = [call EXCEPT ![c] = thrown(call[c])]
              /\ UNCHANGED <<runtimeStatusCache, isInitialized>>
  /\ observed' = NoObservation
  /\ UNCHANGED <<editor, host, processEnv, now>>

\* Line 75 resumes: await detectBunRuntime().
DetectBunRuntimeSettles(c) ==
  /\ call[c].pc = "detectBunRuntime"
  /\ \E how \in Settlements :
       IF how = "fulfilled"
         THEN proceed(c,
                fromGitDetection(
                  [call[c] EXCEPT !.bunStatus = call[c].awaited,
                                  !.awaited = Unassigned],
                  host, processEnv),
                call, runtimeStatusCache, isInitialized, now)
         ELSE /\ call' = [call EXCEPT ![c] = thrown(call[c])]
              /\ UNCHANGED <<runtimeStatusCache, isInitialized>>
  /\ observed' = NoObservation
  /\ UNCHANGED <<editor, host, processEnv, now>>

\* Line 85 resumes: await detectGitRuntime().
DetectGitRuntimeSettles(c) ==
  /\ call[c].pc = "detectGitRuntime"
  /\ \E how \in Settlements :
       IF how = "fulfilled"
         THEN proceed(c,
                fromShellDetection(
                  [call[c] EXCEPT !.gitStatus = call[c].awaited,
                                  !.awaited = Unassigned],
                  host),
                call, runtimeStatusCache, isInitialized, now)
         ELSE /\ call' = [call EXCEPT ![c] = thrown(call[c])]
              /\ UNCHANGED <<runtimeStatusCache, isInitialized>>
  /\ observed' = NoObservation
  /\ UNCHANGED <<editor, host, processEnv, now>>

\* C15 mutant: the recommendation is made as soon as Git Bash is known,
\* before detectWsl is awaited.
DetectGitBashSettlesResolvingEarly(c) ==
  /\ call[c].pc = "detectGitBash"
  /\ \E how \in Settlements :
       LET gitBashStatus == call[c].awaited[1]
           l == IF how = "fulfilled"
                  THEN awaiting(
                         [call[c] EXCEPT
                            !.gitBashStatus = call[c].awaited,
                            !.shellEnvironmentStatus =
                              Some(ShellEnvironmentStatusOf(
                                     gitBashStatus,
                                     UnavailableWsl(NonWindowsError)))],
                         "detectWsl", detectWsl(host.platform, host.wslExe))
                  ELSE [call[c] EXCEPT !.pc = "assemble",
                                       !.awaited = Unassigned,
                                       !.caught = TRUE]
       IN  proceed(c, l, call, runtimeStatusCache, isInitialized, now)
  /\ observed' = NoObservation
  /\ UNCHANGED <<editor, host, processEnv, now>>

\* Line 92 resumes: await detectGitBash(), in try/catch (lines 91 to 118);
\* line 93 then calls detectWsl, which runs to its end when called.
DetectGitBashSettles(c) ==
  /\ call[c].pc = "detectGitBash"
  /\ \E how \in Settlements :
       LET l == IF how = "fulfilled"
                  THEN awaiting(
                         [call[c] EXCEPT !.gitBashStatus = call[c].awaited],
                         "detectWsl", detectWsl(host.platform, host.wslExe))
                  ELSE [call[c] EXCEPT !.pc = "assemble",
                                       !.awaited = Unassigned,
                                       !.caught = TRUE]
       IN  proceed(c, l, call, runtimeStatusCache, isInitialized, now)
  /\ observed' = NoObservation
  /\ UNCHANGED <<editor, host, processEnv, now>>

\* C16 mutant: the shell detection is started again as long as no shell
\* has been found.
DetectWslSettlesRetrying(c) ==
  /\ call[c].pc = "detectWsl"
  /\ LET gitBashStatus == call[c].gitBashStatus[1]
         wslStatus == call[c].awaited[1]
         l == IF ~gitBashStatus.available /\ ~wslStatus.available
                THEN awaiting([call[c] EXCEPT !.gitBashStatus = Unassigned],
                              "detectGitBash", detectGitBash(host))
                ELSE [call[c] EXCEPT
                        !.pc = "assemble",
                        !.awaited = Unassigned,
                        !.shellEnvironmentStatus =
                          Some(ShellEnvironmentStatusOf(gitBashStatus,
                                                        wslStatus))]
     IN  proceed(c, l, call, runtimeStatusCache, isInitialized, now)
  /\ observed' = NoObservation
  /\ UNCHANGED <<editor, host, processEnv, now>>

\* Line 93 resumes: await detectWsl().  detectWsl catches what execSync
\* throws, so its promise is always fulfilled.  Lines 95 to 107 follow.
DetectWslSettles(c) ==
  /\ call[c].pc = "detectWsl"
  /\ LET gitBashStatus == call[c].gitBashStatus[1]
         wslStatus == call[c].awaited[1]
         l == [call[c] EXCEPT
                 !.pc = "assemble",
                 !.awaited = Unassigned,
                 !.shellEnvironmentStatus =
                   Some(ShellEnvironmentStatusOf(gitBashStatus, wslStatus))]
     IN  proceed(c, l, call, runtimeStatusCache, isInitialized, now)
  /\ observed' = NoObservation
  /\ UNCHANGED <<editor, host, processEnv, now>>

\* C9 mutant: an accessor that initializes on first use.
GetRuntimeStatusOrInit ==
  LET fresh ==
        [node |-> SkippedNodeStatus, bun |-> SkippedBunStatus,
         git |-> SkippedGitStatus, shell |-> Undefined,
         envLoaded |-> FALSE, initializedAt |-> now, ref |-> 0]
      value == IF runtimeStatusCache = Null THEN Some(fresh)
               ELSE runtimeStatusCache
  IN  /\ observed' = [op |-> "getRuntimeStatus", value |-> value]
      /\ runtimeStatusCache' = value
      /\ isInitialized' = TRUE
      /\ UNCHANGED <<editor, host, processEnv, now, call>>

\* getRuntimeStatus(): lines 155 to 157.
GetRuntimeStatus ==
  /\ observed' = [op |-> "getRuntimeStatus", value |-> runtimeStatusCache]
  /\ UNCHANGED <<editor, host, processEnv, now, runtimeStatusCache, isInitialized,
                 call>>

\* isRuntimeInitialized(): lines 164 to 166.
IsRuntimeInitialized ==
  /\ observed' = [op |-> "isRuntimeInitialized", value |-> isInitialized]
  /\ UNCHANGED <<editor, host, processEnv, now, runtimeStatusCache, isInitialized,
                 call>>

\* ------------------------------------ renderer: ChatMessageItem.tsx
\* Bounds of the inline editor: the files dropped, pasted or selected
\* while the component is mounted, and the times edit mode is entered.
MaxFiles == 2
MaxSessions == 2

\* The texts of the textarea: empty, blanks only, and a text with words.
Contents == {"", "  ", "hello"}

\* String.prototype.trim on these texts.
trimContent(content) == IF content = "  " THEN "" ELSE content

\* The user messages shown: with or without text, with up to two
\* attachments (given by their ids).
Messages ==
  [content : {"", "hello"}, attachments : {<<>>, <<"a1">>, <<"a1", "a2">>}]

NoMessage == [content |-> "", attachments |-> <<>>]

NoPayload == <<>>

\* The component after its first render (lines 130 to 134, and the effects
\* of lines 137 to 183 with isInlineEditing = false).  converting, session,
\* startedIn, added, removed and submitted are records of what happened:
\* the conversions of files in flight, the number of edit sessions so
\* far, the session in which each file was handed to the editor, the new
\* items appended and the ids removed in the current session, and the
\* payload passed to onSubmitInlineEdit in the latest step.
Mounted(message) ==
  [message |-> message,
   isInlineEditing |-> FALSE,
   editingContent |-> message.content,
   editableAttachments |-> <<>>,
   converting |-> {},
   session |-> 0,
   startedIn |-> <<>>,
   added |-> <<>>,
   removed |-> {},
   submitted |-> NoPayload]

Init ==
  /\ host \in Hosts
  /\ processEnv = "base"
  /\ now = 0
  /\ runtimeStatusCache = Null
  /\ isInitialized = FALSE
  /\ call = [c \in Calls |-> IdleCall]
  /\ observed = NoObservation
  /\ editor = Mounted(NoMessage)

Next ==
  \/ \E c \in Calls, options \in OptionChoices : InitializeRuntime(c, options)
  \/ \E c \in Calls, options \in OptionChoices : ReinitializeRuntime(c, options)
  \/ \E c \in Calls : LoadShellEnvSettles(c)
  \/ \E c \in Calls : DetectNodeRuntimeSettles(c)
  \/ \E c \in Calls : DetectBunRuntimeSettles(c)
  \/ \E c \in Calls : DetectGitRuntimeSettles(c)
  \/ \E c \in Calls : DetectGitBashSettles(c)
  \/ \E c \in Calls : DetectWslSettles(c)

\* The coordinator alone.
Spec == Init /\ [][Next]_vars

\* The coordinator and the application code that reads it.
NextAccessors ==
  \/ Next
  \/ GetRuntimeStatus
  \/ IsRuntimeInitialized

SpecAccessors == Init /\ [][NextAccessors]_vars

\* An application that only ever calls reinitializeRuntime.
NextReinitialize ==
  \/ \E c \in Calls, options \in OptionChoices : ReinitializeRuntime(c, options)
  \/ \E c \in Calls : LoadShellEnvSettles(c)
  \/ \E c \in Calls : DetectNodeRuntimeSettles(c)
  \/ \E c \in Calls : DetectBunRuntimeSettles(c)
  \/ \E c \in Calls : DetectGitRuntimeSettles(c)
  \/ \E c \in Calls : DetectGitBashSettles(c)
  \/ \E c \in Calls : DetectWslSettles(c)

SpecReinitialize == Init /\ [][NextReinitialize]_vars

\* ------------------------------------------------ the WSL detector alone
\* Longest output of wsl.exe considered, in lines.
MaxLines == 3

\* A row of the listing whose distribution name is a text of several
\* pieces.  The default distribution is the running one.
RowNamed(isDefault, name, version) ==
  <<IF isDefault THEN "*" ELSE Blank, Blank>> \o name
    \o <<Blank, IF isDefault THEN "Running" ELSE "Stopped", Blank, version>>

\* Distribution names: two of the store, and one given by the user with
\* wsl --import that has the word NAME in it.
DistroNames == {<<"Ubuntu">>, <<"Debian">>, <<"MY-", "NAME">>}

\* What the VERSION column holds: 1, 2, or something else.
VersionMarkers == {"1", "2", "-"}

DistroRows ==
  {RowNamed(isDefault, name, version) :
     isDefault \in BOOLEAN, name \in DistroNames, version \in VersionMarkers}

\* The lines wsl.exe prints: the title row, an empty line, a line of
\* blanks, a message of fewer than three words, and distribution rows.
OutputLines ==
  {TitleRow, <<>>, <<Blank, Blank>>, <<"Access", Blank, "denied.">>}
    \cup DistroRows

RECURSIVE OutputsOfLength(_)
OutputsOfLength(n) ==
  IF n = 0 THEN {<<>>}
  ELSE {Append(output, line) :
          output \in OutputsOfLength(n - 1), line \in OutputLines}

\* wsl.exe marks one distribution as the default, never two.
Outputs ==
  {output \in UNION {OutputsOfLength(n) : n \in 0..MaxLines} :
     Cardinality({i \in 1..Len(output) : startsWithStar(output[i])}) <= 1}

\* Messages of the errors execSync throws: the shell does not know wsl.exe
\* (in the words of cmd.exe and of a POSIX shell), the command ran into
\* the timeout, wsl.exe itself failed, and a message that names wsl.exe
\* without saying that it is missing.
ErrorMessages ==
  {NotRecognizedMessage,
   <<"/bin/sh: ", "wsl.exe", ": ", "not found">>,
   TimedOutMessage,
   <<"Command failed: ", "wsl.exe", " --list --verbose">>,
   <<"The system cannot find the file specified: ", "not found">>}

\* The machines on which detectWsl is exercised by itself, given by what
\* execSync does on them.
WslHosts(execResults) ==
  [platform : {"win32", "linux"}, toolchain : {"PATH"},
   shellEnv : {"imports"}, gitBash : {FALSE}, wslExe : execResults]

InitWsl ==
  /\ \/ host \in WslHosts({Returned(output) : output \in Outputs})
     \/ host \in WslHosts({Threw(message) : message \in ErrorMessages})
  /\ processEnv = "base"
  /\ now = 0
  /\ runtimeStatusCache = Null
  /\ isInitialized = FALSE
  /\ call = [c \in Calls |-> IdleCall]
  /\ observed = NoObservation
  /\ editor = Mounted(NoMessage)

\* parseWslListOutput(output) is applied to what the command printed
\* (line 110, reached on Windows when execSync returned).
ParseWslListOutput ==
  /\ host.platform = "win32"
  /\ ~host.wslExe.threw
  /\ observed' = [op |-> "parseWslListOutput",
                  value |-> parseWslListOutput(host.wslExe.text)]
  /\ UNCHANGED <<editor, host, processEnv, now, runtimeStatusCache, isInitialized,
                 call>>

\* detectWsl() is called and returns.
DetectWsl ==
  /\ observed' = [op |-> "detectWsl",
                  value |-> detectWsl(host.platform, host.wslExe)]
  /\ UNCHANGED <<editor, host, processEnv, now, runtimeStatusCache, isInitialized,
                 call>>

NextWsl ==
  \/ ParseWslListOutput
  \/ DetectWsl

SpecWsl == InitWsl /\ [][NextWsl]_vars

\* ------------------------------------------------------ the parser alone
\* parseWslListOutput is a function of any string: here every output of up
\* to MaxLines lines, with any number of marked rows.
AnyOutputs == UNION {OutputsOfLength(n) : n \in 0..MaxLines}

InitParser ==
  /\ host \in [platform : {"win32"}, toolchain : {"PATH"},
                shellEnv : {"imports"}, gitBash : {FALSE},
                wslExe : {Returned(output) : output \in AnyOutputs}]
  /\ processEnv = "base"
  /\ now = 0
  /\ runtimeStatusCache = Null
  /\ isInitialized = FALSE
  /\ call = [c \in Calls |-> IdleCall]
  /\ observed = NoObservation
  /\ editor = Mounted(NoMessage)

NextParser == ParseWslListOutput

SpecParser == InitParser /\ [][NextParser]_vars

\* ----------------------------------------------- the inline editor alone
FileNames == [n \in 1..MaxFiles |-> IF n = 1 THEN "f1" ELSE
                                    IF n = 2 THEN "f2" ELSE "f3"]

\* Lines 149 to 153: the items of the message's own attachments.
existingItems(message) ==
  [i \in 1..Len(message.attachments) |->
     [kind |-> "existing",
      id |-> <<"existing-", message.attachments[i]>>,
      attachment |-> message.attachments[i]]]

\* Lines 198 to 213: the item of a converted file.
newItem(file) ==
  [kind |-> "new", id |-> <<"inline-new-", file>>, attachment |-> file]

\* addPendingAttachments(items), lines 195 to 215, as the update of the
\* list: setEditableAttachments((prev) => [...prev, ...next]).
addPendingAttachments(prev, items) ==
  IF Len(items) = 0 THEN prev
  ELSE prev \o [i \in 1..Len(items) |-> newItem(items[i])]

\* removeEditableAttachment(id), lines 261 to 269, as the update of the
\* list: prev.filter((item) => item.id !== id).
removeEditableAttachment(prev, id) ==
  LET others(item) == item.id # id
  IN  SelectSeq(prev, others)

\* Line 271.
canSubmitInline(e) ==
  trimContent(e.editingContent) # "" \/ Len(e.editableAttachments) > 0

\* The attachments of the items of one kind, in list order.
attachmentsOfKind(list, kind) ==
  LET ofKind(item) == item.kind = kind
      kept == SelectSeq(list, ofKind)
  IN  [i \in 1..Len(kept) |-> kept[i].attachment]

\* C27 mutant: newAttachments is made of every item of the list.
payloadOfWithoutFilter(e) ==
  [content |-> trimContent(e.editingContent),
   keepExistingAttachments |->
     attachmentsOfKind(e.editableAttachments, "existing"),
   newAttachments |->
     [i \in 1..Len(e.editableAttachments) |->
        e.editableAttachments[i].attachment]]

\* Lines 402 to 415 and 440 to 453: the payload.
payloadOf(e) ==
  [content |-> trimContent(e.editingContent),
   keepExistingAttachments |->
     attachmentsOfKind(e.editableAttachments, "existing"),
   newAttachments |-> attachmentsOfKind(e.editableAttachments, "new")]

coordinatorVars ==
  <<host, processEnv, now, runtimeStatusCache, isInitialized, call, observed>>

\* The edit button (lines 469 and 480 to 487) is clicked and the parent
\* sets isInlineEditing; the effects of lines 137 to 141 and 143 to 183
\* run after the render.
StartInlineEdit ==
  /\ ~editor.isInlineEditing
  /\ editor.message.content # "" \/ Len(editor.message.attachments) > 0
  /\ editor.session < MaxSessions
  /\ editor' = [editor EXCEPT
                  !.isInlineEditing = TRUE,
                  !.editingContent = editor.message.content,
                  !.editableAttachments = existingItems(editor.message),
                  !.session = @ + 1,
                  !.added = <<>>,
                  !.removed = {},
                  !.submitted = NoPayload]
  /\ UNCHANGED coordinatorVars

\* The cancel button (lines 430 to 435) is clicked, or the parent ends the
\* edit after a submit: isInlineEditing becomes false and the effect of
\* lines 144 to 147 empties the list.
CancelInlineEdit ==
  /\ editor.isInlineEditing
  /\ editor' = [editor EXCEPT !.isInlineEditing = FALSE,
                              !.editableAttachments = <<>>,
                              !.submitted = NoPayload]
  /\ UNCHANGED coordinatorVars

\* The user types: onChange, line 391.
SetEditingContent(content) ==
  /\ editor.isInlineEditing
  /\ content # editor.editingContent
  /\ editor' = [editor EXCEPT !.editingContent = content,
                              !.submitted = NoPayload]
  /\ UNCHANGED coordinatorVars

\* A file is handed to the editor, which starts to convert it.
startConverting(e) ==
  LET file == FileNames[Len(e.startedIn) + 1]
  IN  [e EXCEPT !.converting = @ \cup {file},
                !.startedIn = Append(@, e.session),
                !.submitted = NoPayload]

\* A file is dropped on the editor (lines 366 to 374) or pasted into the
\* textarea (lines 392 to 397): handleDropFiles up to its await, line 247.
HandleDropFiles ==
  /\ editor.isInlineEditing
  /\ Len(editor.startedIn) < MaxFiles
  /\ editor' = startConverting(editor)
  /\ UNCHANGED coordinatorVars

\* The attachment button is clicked (line 426): handleSelectAttachments up
\* to its await, line 219.
HandleSelectAttachments ==
  /\ editor.isInlineEditing
  /\ Len(editor.startedIn) < MaxFiles
  /\ editor' = startConverting(editor)
  /\ UNCHANGED coordinatorVars

\* The await of line 247 or of line 219 settles, in whatever mode the
\* component is by then.  A file that could not be read is left out (lines
\* 254 to 256 and 226 to 228); the others go to addPendingAttachments.
FileConversionSettles(file) ==
  /\ file \in editor.converting
  /\ \E how \in Settlements :
       LET converted == IF how = "fulfilled" THEN <<file>> ELSE <<>>
       IN  editor' =
             [editor EXCEPT
                !.converting = @ \ {file},
                !.editableAttachments = addPendingAttachments(@, converted),
                !.added = @ \o converted,
                !.submitted = NoPayload]
  /\ UNCHANGED coordinatorVars

\* The X of an item is clicked: onRemove, line 384.
RemoveEditableAttachment(id) ==
  /\ editor.isInlineEditing
  /\ \E i \in 1..Len(editor.editableAttachments) :
       editor.editableAttachments[i].id = id
  /\ editor' =
       [editor EXCEPT
          !.editableAttachments = removeEditableAttachment(@, id),
          !.removed = @ \cup {id},
          !.submitted = NoPayload]
  /\ UNCHANGED coordinatorVars

\* Enter without Shift in the textarea (lines 398 to 418) or a click on
\* the send button (lines 436 to 455).
SubmitInlineEdit ==
  /\ editor.isInlineEditing
  /\ editor' =
       [editor EXCEPT
          !.submitted = IF canSubmitInline(editor)
                          THEN Some(payloadOf(editor)) ELSE NoPayload]
  /\ UNCHANGED coordinatorVars

ItemIds ==
  {<<"existing-", "a1">>, <<"existing-", "a2">>}
    \cup {<<"inline-new-", FileNames[n]>> : n \in 1..MaxFiles}

InitEditor ==
  /\ host \in {h \in Hosts : /\ h.platform = "darwin"
                              /\ h.toolchain = "PATH"
                              /\ h.shellEnv = "imports"}
  /\ processEnv = "base"
  /\ now = 0
  /\ runtimeStatusCache = Null
  /\ isInitialized = FALSE
  /\ call = [c \in Calls |-> IdleCall]
  /\ observed = NoObservation
  /\ editor \in {Mounted(message) : message \in Messages}

NextEditor ==
  \/ StartInlineEdit
  \/ CancelInlineEdit
  \/ \E content \in Contents : SetEditingContent(content)
  \/ HandleDropFiles
  \/ HandleSelectAttachments
  \/ \E n \in 1..MaxFiles : FileConversionSettles(FileNames[n])
  \/ \E id \in ItemIds : RemoveEditableAttachment(id)
  \/ SubmitInlineEdit

SpecEditor == InitEditor /\ [][NextEditor]_vars

\* ================================================================ claims
Done == {c \in Calls : call[c].pc = "done"}
statusOf(c) == call[c].result[1]

\* A call that ran with no other call in progress at any time during it
\* and after which no call has been made.
ranAloneLast(c) ==
  /\ ~call[c].overlapped
  /\ \A d \in Calls : d > c => call[d].pc = "idle"

\* C1: there is no visible Initialized -> Uninitialized transition: once
\* getRuntimeStatus() is non-null it stays non-null, and once
\* isRuntimeInitialized() is true it stays true, at every point where the
\* application can call them, also while a reinitializeRuntime is in flight.
C1_NeverUninitializedAgain ==
  [][/\ runtimeStatusCache # Null => runtimeStatusCache' # Null
     /\ isInitialized => isInitialized']_vars

\* C2: a call that fails with an unexpected exception leaves the cache as
\* it was before the call began (stated for a call that ran alone: no other
\* call can then have written the cache).
C2_FailedCallKeepsCache ==
  \A c \in Calls :
    (call[c].pc = "failed" /\ ranAloneLast(c)) =>
      runtimeStatusCache = call[c].before

\* C3: whatever the interleaving of calls, a non-null cache is exactly the
\* status object one single run assembled and returned: every field is the
\* value that run obtained, none is missing, none comes from another run.
C3_CacheIsOneRunsStatus ==
  runtimeStatusCache # Null =>
    LET cached == runtimeStatusCache[1]
        run == call[cached.ref]
    IN  /\ cached.ref \in Done
        /\ run.result = runtimeStatusCache
        /\ <<cached.node>> = run.nodeStatus
        /\ <<cached.bun>> = run.bunStatus
        /\ <<cached.git>> = run.gitStatus
        /\ cached.shell = run.shellEnvironmentStatus
        /\ cached.envLoaded = run.envLoaded
        /\ cached.initializedAt \in 1..now

\* C3 witness: two overlapping runs have both completed, each on detector
\* results of its own, and the cache holds the status of one of them.
C3_Witness ==
  /\ Done = Calls
  /\ \A c \in Calls : call[c].overlapped
  /\ runtimeStatusCache # Null
  /\ statusOf(1).node # statusOf(2).node
  /\ statusOf(1).bun # statusOf(2).bun

\* An unavailable tool has an error and neither path nor version.
isBare(status) ==
  status.available \/
    (status.error # Null /\ status.path = Null /\ status.version = Null)

isBareWsl(status) ==
  status.available \/
    /\ status.error # Null
    /\ status.version = Null
    /\ status.defaultDistro = Null
    /\ status.distros = <<>>

\* C4: in every status initializeRuntime produces, a detector status with
\* available = false, from a detector or from a skip flag, has a non-null
\* error and null path and version (and source for Bun); for WSL it has a
\* null defaultDistro and no distros as well.
C4_UnavailableStatusIsBare ==
  \A c \in Done :
    LET status == statusOf(c)
    IN  /\ isBare(status.node)
        /\ isBare(status.bun)
        /\ ~status.bun.available => status.bun.source = Null
        /\ isBare(status.git)
        /\ status.shell # Undefined =>
             /\ isBare(status.shell[1].gitBash)
             /\ isBareWsl(status.shell[1].wsl)

\* C4 witness: a produced status holds an unavailable status from a skip
\* flag and unavailable statuses from the Git Bash and the WSL detector.
C4_Witness ==
  \E c \in Done :
    /\ call[c].options["skipBunDetection"]
    /\ ~statusOf(c).bun.available
    /\ statusOf(c).node.available
    /\ statusOf(c).shell # Undefined
    /\ ~statusOf(c).shell[1].gitBash.available
    /\ ~statusOf(c).shell[1].wsl.available

\* C5: in every status initializeRuntime produces, whatever the flags and
\* the detector outcomes, shell is present exactly on Windows.
C5_ShellIffWindows ==
  \A c \in Done :
    (statusOf(c).shell # Undefined) <=> (host.platform = "win32")

\* Whether a status is the fixed record that stands for the skipped
\* detection of tool: unavailable, bare, with an error that names the skip.
isSkipped(status, tool) ==
  /\ ~status.available
  /\ status.path = Null
  /\ status.version = Null
  /\ status.error # Null
  /\ includes(status.error[1], "skipped ")
  /\ includes(status.error[1], tool)

\* C6: every skip flag substitutes a skipped status for its field and never
\* omits the field; on Windows with skipShellDetection the status still has
\* a shell field, which carries unavailable shells with an error.
C6_SkipNeverOmits ==
  \A c \in Done :
    LET status == statusOf(c)
        options == call[c].options
    IN  /\ options["skipNodeDetection"] => isSkipped(status.node, "Node.js")
        /\ options["skipBunDetection"] => isSkipped(status.bun, "Bun")
        /\ options["skipGitDetection"] => isSkipped(status.git, "Git")
        /\ (host.platform = "win32" /\ options["skipShellDetection"]) =>
             IF status.shell = Undefined THEN FALSE
             ELSE /\ ~status.shell[1].gitBash.available
                  /\ status.shell[1].gitBash.error # Null
                  /\ ~status.shell[1].wsl.available
                  /\ status.shell[1].wsl.error # Null

\* C7: for Node, Bun and Git, a call whose skip flag is set never invokes
\* that detector, and the status it produces holds the fixed record:
\* unavailable, null path and version (null source for Bun), and an error
\* that names the skip.
C7_SkippedDetectorNeverRuns ==
  \A c \in Calls :
    LET options == call[c].options
    IN  /\ options["skipNodeDetection"] =>
             /\ "detectNodeRuntime" \notin call[c].invoked
             /\ c \in Done => isSkipped(statusOf(c).node, "Node.js")
        /\ options["skipBunDetection"] =>
             /\ "detectBunRuntime" \notin call[c].invoked
             /\ c \in Done =>
                  /\ isSkipped(statusOf(c).bun, "Bun")
                  /\ statusOf(c).bun.source = Null
        /\ options["skipGitDetection"] =>
             /\ "detectGitRuntime" \notin call[c].invoked
             /\ c \in Done => isSkipped(statusOf(c).git, "Git")

\* C7 witness: a run with skipGitDetection on a machine where Git is on the
\* PATH has completed: it ran the Node and Bun detectors, found both tools,
\* and reports Git as skipped.
C7_Witness ==
  \E c \in Done :
    /\ call[c].options["skipGitDetection"]
    /\ {"detectNodeRuntime", "detectBunRuntime"} \subseteq call[c].invoked
    /\ statusOf(c).node.available
    /\ statusOf(c).bun.available
    /\ host.toolchain = "PATH"
    /\ ~statusOf(c).git.available

\* The functions a skip flag keeps initializeRuntime from calling, and the
\* field of the status it decides.
stepsOf(flag) ==
  CASE flag = "skipEnvLoad" -> {"loadShellEnv"}
    [] flag = "skipNodeDetection" -> {"detectNodeRuntime"}
    [] flag = "skipBunDetection" -> {"detectBunRuntime"}
    [] flag = "skipGitDetection" -> {"detectGitRuntime"}
    [] flag = "skipShellDetection" -> {"detectGitBash", "detectWsl"}

fieldOf(flag) ==
  CASE flag = "skipEnvLoad" -> "envLoaded"
    [] flag = "skipNodeDetection" -> "node"
    [] flag = "skipBunDetection" -> "bun"
    [] flag = "skipGitDetection" -> "git"
    [] flag = "skipShellDetection" -> "shell"

StepFields == {"envLoaded", "node", "bun", "git", "shell"}

\* Two completed runs that can be compared: made on the same machine from
\* the same process environment, each with no other call in progress and
\* no unexpected exception, with options that differ in flag and in no
\* other flag.
differOnlyIn(c1, c2, flag) ==
  /\ c1 \in Done /\ c2 \in Done
  /\ ~call[c1].overlapped /\ ~call[c2].overlapped
  /\ ~call[c1].caught /\ ~call[c2].caught
  /\ call[c1].envBefore = call[c2].envBefore
  /\ \A f \in SkipFlags :
       (call[c1].options[f] # call[c2].options[f]) <=> (f = flag)

sameOtherSteps(c1, c2, flag) ==
  call[c1].invoked \ stepsOf(flag) = call[c2].invoked \ stepsOf(flag)

sameOtherFields(c1, c2, flag) ==
  \A field \in StepFields \ {fieldOf(flag)} :
    statusOf(c1)[field] = statusOf(c2)[field]

\* C8 as claimed: each skip flag disables exactly one step: between two
\* runs whose options differ in one flag only, every other step is invoked
\* the same way and the status fields of the other steps are the same.
C8_FlagTouchesOneStepOnly ==
  \A c1, c2 \in Calls, flag \in SkipFlags :
    differOnlyIn(c1, c2, flag) =>
      /\ sameOtherSteps(c1, c2, flag)
      /\ sameOtherFields(c1, c2, flag)

\* C8 as amended: every other step is invoked the same way whatever the
\* flag; the status fields of the other steps are the same when the flag
\* is one of the four detection flags.  (skipEnvLoad decides whether the
\* login shell's variables are in the environment the detectors search.)
C8_FlagTouchesOneStepOnlyAmended ==
  \A c1, c2 \in Calls, flag \in SkipFlags :
    differOnlyIn(c1, c2, flag) =>
      /\ sameOtherSteps(c1, c2, flag)
      /\ flag # "skipEnvLoad" => sameOtherFields(c1, c2, flag)

\* C8 witness: two comparable runs differ in skipNodeDetection only, and
\* both found Bun and Git with their detectors.
C8_Witness ==
  /\ differOnlyIn(1, 2, "skipNodeDetection")
  /\ statusOf(1).node.available # statusOf(2).node.available
  /\ statusOf(1).bun.available /\ statusOf(2).bun.available
  /\ statusOf(1).git.available /\ statusOf(2).git.available
  /\ "detectBunRuntime" \in call[1].invoked \cap call[2].invoked

\* C9: getRuntimeStatus() is a pure read: it returns the cache, which is
\* null as long as no initializeRuntime has completed; it invokes no
\* detector and no loader, and leaves the cache, the flag, the process
\* environment and every activation as they were.
C9_GetRuntimeStatusIsPureRead ==
  [][observed'.op = "getRuntimeStatus" =>
       /\ observed'.value = runtimeStatusCache
       /\ (\A c \in Calls : call[c].pc # "done") => observed'.value = Null
       /\ UNCHANGED <<runtimeStatusCache, isInitialized, processEnv, call>>
    ]_vars

\* C9 witness: getRuntimeStatus() has just returned a status while another
\* initialization is suspended at an await.
C9_Witness ==
  /\ observed.op = "getRuntimeStatus"
  /\ observed.value # Null
  /\ \E c \in Calls : call[c].pc = "detectBunRuntime"

\* C10: in every shell status produced, recommended follows from the two
\* availability flags stored with it: 'git-bash' when Git Bash is
\* available, else 'wsl' when WSL is available (version 1, 2 or null),
\* else null.
C10_RecommendedFollowsAvailability ==
  \A c \in Done :
    statusOf(c).shell # Undefined =>
      LET shell == statusOf(c).shell[1]
      IN  /\ shell.gitBash.available => shell.recommended = Some("git-bash")
          /\ (~shell.gitBash.available /\ shell.wsl.available) =>
               shell.recommended = Some("wsl")
          /\ (~shell.gitBash.available /\ ~shell.wsl.available) =>
               shell.recommended = Null

\* C10 witness: a produced shell status without Git Bash and with a WSL
\* whose version is unknown recommends 'wsl'.
C10_Witness ==
  \E c \in Done :
    /\ statusOf(c).shell # Undefined
    /\ ~statusOf(c).shell[1].gitBash.available
    /\ statusOf(c).shell[1].wsl.available
    /\ statusOf(c).shell[1].wsl.version = Null
    /\ statusOf(c).shell[1].recommended = Some("wsl")

\* Two completed calls made one after the other, the second after the
\* first returned, with the same options, on a machine where no detector
\* and no loader failed unexpectedly.
consecutive(c1, c2) ==
  /\ c2 = c1 + 1
  /\ c1 \in Done /\ c2 \in Done
  /\ ~call[c1].overlapped /\ ~call[c2].overlapped
  /\ ~call[c1].caught /\ ~call[c2].caught
  /\ call[c1].options = call[c2].options

\* C11: two consecutive reinitializeRuntime calls with the same options on
\* an unchanged machine return statuses equal in node, bun, git, shell and
\* envLoaded: in every field except initializedAt.
C11_ReinitializeIsRepeatable ==
  \A c1, c2 \in Calls :
    consecutive(c1, c2) =>
      \A field \in StepFields : statusOf(c1)[field] = statusOf(c2)[field]

\* C11 witness: two consecutive reinitializeRuntime calls have loaded the
\* shell environment, which brought the tool chain on the PATH, and were
\* made at different times.
C11_Witness ==
  /\ consecutive(1, 2)
  /\ host.toolchain = "login"
  /\ statusOf(1).envLoaded /\ statusOf(2).envLoaded
  /\ statusOf(1).node.available /\ statusOf(2).node.available
  /\ call[1].envBefore # call[2].envBefore
  /\ statusOf(1).initializedAt # statusOf(2).initializedAt

\* The detectors a call with these options runs on the platform.
detectorsOf(options, platform) ==
  {fn \in {"detectNodeRuntime", "detectBunRuntime", "detectGitRuntime"} :
     \A flag \in SkipFlags : fn \in stepsOf(flag) => ~options[flag]}
  \cup (IF platform = "win32" /\ ~options["skipShellDetection"]
          THEN {"detectGitBash", "detectWsl"} ELSE {})

\* A status record that reports a failed detection as data.
failedAsData(status) == ~status.available /\ status.error # Null

\* C12: one detector's failure never aborts the others.  Whatever detectors
\* of a call report a failure (a status with available = false), the call
\* runs every detector its options do not skip, and when it returns, the
\* status carries what each detector reported, each failure with its error
\* on its own record, and that status is the cache.  (An unexpected
\* exception, which is not a detection failure, is set apart.)
C12_FailureNeverAbortsOthers ==
  [][\A c \in Calls :
       (call'[c].pc = "done" /\ call[c].pc # "done" /\ ~call'[c].caught) =>
         LET run == call'[c]
             status == run.result[1]
         IN  /\ detectorsOf(run.options, host.platform) \subseteq run.invoked
             /\ <<status.node>> = run.nodeStatus
             /\ <<status.bun>> = run.bunStatus
             /\ <<status.git>> = run.gitStatus
             /\ \A field \in {"node", "bun", "git"} :
                  status[field].available \/ failedAsData(status[field])
             /\ "detectGitBash" \in run.invoked =>
                  /\ status.shell # Undefined
                  /\ <<status.shell[1].gitBash>> = run.gitBashStatus
                  /\ \A shell \in {"gitBash", "wsl"} :
                       \/ status.shell[1][shell].available
                       \/ failedAsData(status.shell[1][shell])
             /\ runtimeStatusCache' = run.result
             /\ isInitialized'
    ]_vars

\* C12 witness: a call on Windows with no flag set found none of Node.js,
\* Bun and Git, went on to the two shell detectors, and has returned a
\* cached status that holds the three failures and the shells.
C12_Witness ==
  \E c \in Done :
    /\ call[c].options = NoOptions
    /\ ~call[c].caught
    /\ call[c].invoked =
         {"loadShellEnv", "detectNodeRuntime", "detectBunRuntime",
          "detectGitRuntime", "detectGitBash", "detectWsl"}
    /\ failedAsData(statusOf(c).node)
    /\ failedAsData(statusOf(c).bun)
    /\ failedAsData(statusOf(c).git)
    /\ statusOf(c).shell # Undefined
    /\ statusOf(c).shell[1].wsl.available
    /\ runtimeStatusCache = call[c].result

\* Where a call is after the loader step: suspended at its first detector
\* that is not skipped, or returned when there is none.
afterEnvLoad(options, platform) ==
  IF ~options["skipNodeDetection"] THEN "detectNodeRuntime"
  ELSE IF ~options["skipBunDetection"] THEN "detectBunRuntime"
  ELSE IF ~options["skipGitDetection"] THEN "detectGitRuntime"
  ELSE IF platform = "win32" /\ ~options["skipShellDetection"]
    THEN "detectGitBash"
  ELSE "done"

\* C13: a failure of the shell environment loader never blocks startup.
\* When the await of loadShellEnv settles, with success = false or with an
\* exception, the call goes on to its first detector that is not skipped
\* and envLoaded is false; a call that returns has run its detectors, and
\* its status has envLoaded = true only if the loader was not skipped, ran
\* and returned success = true.
C13_LoaderFailureNeverBlocks ==
  [][\A c \in Calls :
       /\ (call[c].pc = "loadShellEnv" /\ call'[c].pc # "loadShellEnv") =>
            /\ call'[c].pc = afterEnvLoad(call[c].options, host.platform)
            /\ (~loadShellEnv(host).success \/ call'[c].caught) =>
                 ~call'[c].envLoaded
       /\ call'[c].pc = "done" =>
            LET run == call'[c]
            IN  /\ detectorsOf(run.options, host.platform) \ {"detectWsl"}
                     \subseteq run.invoked
                /\ run.result[1].envLoaded = run.envLoaded
                /\ run.result[1].envLoaded =>
                     /\ ~run.options["skipEnvLoad"]
                     /\ "loadShellEnv" \in run.invoked
                     /\ loadShellEnv(host).success
    ]_vars

\* C13 witness: on a machine whose shell environment cannot be read, off
\* Windows, one call whose loader returned success = false and one whose
\* loader threw have both run the three detectors and returned a status
\* with envLoaded = false.
C13_Witness ==
  /\ host.platform # "win32"
  /\ ~loadShellEnv(host).success
  /\ Done = Calls
  /\ ~call[1].caught /\ call[2].caught
  /\ \A c \in Calls :
       /\ call[c].invoked =
            {"loadShellEnv", "detectNodeRuntime", "detectBunRuntime",
             "detectGitRuntime"}
       /\ ~statusOf(c).envLoaded

Detectors ==
  {"detectNodeRuntime", "detectBunRuntime", "detectGitRuntime",
   "detectGitBash", "detectWsl"}

\* C14: the process environment is never written while detectors work: no
\* loadShellEnv is in progress while a call that has not yet returned has
\* a detector running or has run one, overlapping calls included.
C14_LoaderNeverBesideDetectors ==
  \A c1, c2 \in Calls :
    ~ /\ call[c1].pc = "loadShellEnv"
      /\ inProgress(call[c2])
      /\ call[c2].invoked \cap Detectors # {}

ShellDetectors == {"detectGitBash", "detectWsl"}

\* C15: a call has a recommendation (lines 96 to 107 have run) only when
\* its own Git Bash detection and its own WSL detection have both been
\* invoked and have both completed, and the recommendation is stored with
\* the two statuses they returned; off Windows a call invokes neither of
\* the two detectors and never has a recommendation.
C15_ResolverAfterBothDetectors ==
  \A c \in Calls :
    /\ call[c].shellEnvironmentStatus # Undefined =>
         /\ host.platform = "win32"
         /\ ~call[c].options["skipShellDetection"]
         /\ ShellDetectors \subseteq call[c].invoked
         /\ call[c].pc \notin ShellDetectors
         /\ <<call[c].shellEnvironmentStatus[1].gitBash>> =
              call[c].gitBashStatus
         /\ call[c].shellEnvironmentStatus[1].wsl =
              detectWsl(host.platform, host.wslExe)
    /\ host.platform # "win32" =>
         /\ call[c].invoked \cap ShellDetectors = {}
         /\ call[c].shellEnvironmentStatus = Undefined

\* C15 witness: on Windows one call has returned a status with a
\* recommendation while another, whose Git Bash detection has completed,
\* waits for detectWsl and has no recommendation yet.
C15_Witness ==
  /\ host.platform = "win32"
  /\ \E c \in Done :
       /\ statusOf(c).shell # Undefined
       /\ statusOf(c).shell[1].recommended # Null
  /\ \E c \in Calls :
       /\ call[c].pc = "detectWsl"
       /\ call[c].gitBashStatus # Unassigned
       /\ call[c].shellEnvironmentStatus = Undefined

\* The functions initializeRuntime awaits.
Steps == {"loadShellEnv"} \cup Detectors

\* C16: nothing is retried within one call.  A call starts to await the
\* loader or a detector only if it has not invoked it before; a step adds
\* to the functions a call has invoked at most the one it now awaits; and
\* while a call stays suspended at the same await, it invokes nothing.
C16_NoRetryWithinOneCall ==
  [][\A c \in Calls :
       /\ \A fn \in Steps :
            (call'[c].pc = fn /\ call[c].pc # fn) => fn \notin call[c].invoked
       /\ call[c].pc # "idle" =>
            /\ call[c].invoked \subseteq call'[c].invoked
            /\ call'[c].invoked \ call[c].invoked \subseteq {call'[c].pc}
       /\ (call[c].pc \in Steps /\ call'[c].pc = call[c].pc) =>
            call'[c] = [call[c] EXCEPT !.overlapped = call'[c].overlapped]
    ]_vars

\* C16 witness: a detector that failed in a first call, which returned,
\* has been run again by a second, explicit call.
C16_Witness ==
  /\ Done = Calls
  /\ ~call[2].overlapped
  /\ \A c \in Calls :
       /\ "detectNodeRuntime" \in call[c].invoked
       /\ ~statusOf(c).node.available

\* A listing made of the title row and of distribution rows.
isListing(output) ==
  /\ output # <<>>
  /\ output[1] = TitleRow
  /\ \A i \in 2..Len(output) : output[i] \in DistroRows

\* The columns of a distribution row.
nameOf(row) ==
  CHOOSE name \in DistroNames :
    \E isDefault \in BOOLEAN, version \in VersionMarkers :
      row = RowNamed(isDefault, name, version)

versionOf(row) == row[Len(row)]

isDefaultRow(row) == row[1] = "*"

\* C17: parsing a listing made of the title row and of rows
\* [*] NAME STATE VERSION gives as distros the name of every row, in the
\* order of the rows; as defaultDistro the name of the row marked with *;
\* as version the last word of that row when it is 1 or 2.  The listing of
\* the example gives Ubuntu and Debian, default Ubuntu, version 2.
C17_ParsesEveryRow ==
  (observed.op = "parseWslListOutput" /\ isListing(host.wslExe.text)) =>
    LET output == host.wslExe.text
        parsed == observed.value
    IN  /\ parsed.distros =
             [i \in 1..(Len(output) - 1) |-> nameOf(output[i + 1])]
        /\ \A i \in 2..Len(output) :
             isDefaultRow(output[i]) =>
               /\ parsed.defaultDistro = Some(nameOf(output[i]))
               /\ versionOf(output[i]) = "1" => parsed.version = Some(1)
               /\ versionOf(output[i]) = "2" => parsed.version = Some(2)
        /\ output = ExampleListing =>
             /\ parsed.distros = << <<"Ubuntu">>, <<"Debian">> >>
             /\ parsed.defaultDistro = Some(<<"Ubuntu">>)
             /\ parsed.version = Some(2)

\* An output with nothing but title rows, empty lines and lines of blanks.
hasOnlyHeaderAndBlankLines(output) ==
  \A i \in 1..Len(output) : output[i] \in {TitleRow, <<>>, <<Blank, Blank>>}

\* C18: on Windows, when the command succeeds and prints only title and
\* blank lines, detectWsl returns (it raises nothing) the unavailable
\* status with the "installed but no distribution" error, null version and
\* defaultDistro and no distros; and whatever the command does, a status
\* with available = true has at least one distribution.
C18_NoDistributionIsUnavailable ==
  observed.op = "detectWsl" =>
    /\ ( /\ host.platform = "win32"
         /\ ~host.wslExe.threw
         /\ hasOnlyHeaderAndBlankLines(host.wslExe.text) ) =>
          observed.value =
            [available |-> FALSE, version |-> Null, defaultDistro |-> Null,
             distros |-> <<>>, error |-> Some(NoDistroError)]
    /\ observed.value.available => Len(observed.value.distros) >= 1

\* C18 witness: detectWsl has returned the "no distribution" status for an
\* output of a title row followed by an empty line.
C18_Witness ==
  /\ observed.op = "detectWsl"
  /\ host.platform = "win32"
  /\ host.wslExe = Returned(<<TitleRow, <<>> >>)
  /\ observed.value.error = Some(NoDistroError)

\* The number a version marker stands for.
numberOf(marker) == IF marker = "1" THEN 1 ELSE 2

\* C19: the version comes from the default distribution's row only.  For
\* every output, a non-null parsed version is the last word, 1 or 2, of
\* the row marked with *; when no row is marked, or the last word of the
\* marked row is neither 1 nor 2, the version is null, whatever the rows
\* that are not marked hold.
C19_VersionFromDefaultRowOnly ==
  observed.op = "parseWslListOutput" =>
    LET output == host.wslExe.text
        parsed == observed.value
        marked == {i \in 1..Len(output) : startsWithStar(output[i])}
    IN  /\ parsed.version # Null =>
             \E i \in marked :
               /\ versionOf(output[i]) \in {"1", "2"}
               /\ parsed.version = Some(numberOf(versionOf(output[i])))
        /\ (\A i \in marked : versionOf(output[i]) \notin {"1", "2"}) =>
             parsed.version = Null

\* C19 witness: an output whose default row has no valid version and
\* whose other row is at version 2 has been parsed: two distributions, a
\* default, no version.
C19_Witness ==
  /\ observed.op = "parseWslListOutput"
  /\ host.wslExe.text =
       <<TitleRow, RowNamed(TRUE, <<"Ubuntu">>, "-"),
         RowNamed(FALSE, <<"Debian">>, "2")>>
  /\ Len(observed.value.distros) = 2
  /\ observed.value.defaultDistro = Some(<<"Ubuntu">>)
  /\ observed.value.version = Null

\* The messages by which a shell says that it does not know wsl.exe.
MissingBinaryMessages ==
  {NotRecognizedMessage, <<"/bin/sh: ", "wsl.exe", ": ", "not found">>}

\* C20: on Windows, when the listing command fails, detectWsl returns (it
\* raises nothing) an unavailable status with one of two errors: "not
\* installed" when the message says that wsl.exe itself is missing, and
\* for every other failure, the timeout included, the generic error, which
\* is the original message after a fixed prefix.
C20_FailureIsClassified ==
  (observed.op = "detectWsl" /\ host.platform = "win32"
     /\ host.wslExe.threw) =>
    LET message == host.wslExe.text
        status == observed.value
    IN  /\ ~status.available
        /\ status.version = Null
        /\ status.defaultDistro = Null
        /\ status.distros = <<>>
        /\ status.error =
             IF message \in MissingBinaryMessages
               THEN Some(NotInstalledError)
               ELSE Some(DetectionFailedPrefix \o message)
        /\ NotInstalledError # DetectionFailedPrefix \o message

\* C20 witness: the command ran into its timeout and detectWsl has
\* returned the generic error with the message of the timeout in it.
C20_Witness ==
  /\ observed.op = "detectWsl"
  /\ host.platform = "win32"
  /\ host.wslExe = Threw(TimedOutMessage)
  /\ observed.value.error = Some(DetectionFailedPrefix \o TimedOutMessage)

\* C21: off Windows detectWsl returns the unavailable status with the
\* non-Windows error, null version and defaultDistro and no distros,
\* whatever the listing command would print or throw on the machine: the
\* command is not run, and its output is never parsed.
C21_OffWindowsNoProbe ==
  /\ (observed.op = "detectWsl" /\ host.platform # "win32") =>
       observed.value =
         [available |-> FALSE, version |-> Null, defaultDistro |-> Null,
          distros |-> <<>>, error |-> Some(NonWindowsError)]
  /\ observed.op = "parseWslListOutput" => host.platform = "win32"

\* C21 witness: detectWsl has returned the non-Windows status on a Linux
\* machine where the command, if run, would print the example listing.
C21_Witness ==
  /\ observed.op = "detectWsl"
  /\ host.platform = "linux"
  /\ host.wslExe = Returned(ExampleListing)
  /\ observed.value.error = Some(NonWindowsError)

\* C22: wherever application code can run, the flag and the cache agree:
\* isInitialized is true exactly when the cache is non-null, so that
\* isRuntimeInitialized() returns true exactly when getRuntimeStatus()
\* would return a status.
C22_FlagAgreesWithCache ==
  /\ isInitialized <=> (runtimeStatusCache # Null)
  /\ observed.op = "isRuntimeInitialized" =>
       (observed.value <=> (runtimeStatusCache # Null))
  /\ observed.op = "getRuntimeStatus" =>
       ((observed.value # Null) <=> isInitialized)

\* C22 witness: isRuntimeInitialized() has returned false after a first
\* call completed, while a reinitializeRuntime is in flight.
C22_Witness ==
  /\ observed.op = "isRuntimeInitialized"
  /\ ~observed.value
  /\ call[1].pc = "done"
  /\ inProgress(call[2])
  /\ ~call[2].overlapped

\* The calls that have been made.
Started == {c \in Calls : call[c].pc # "idle"}

\* Every call made has returned, and the cache holds the status built by
\* the one that was made last.
LatestStartedIsCached ==
  (Started # {} /\ Started \subseteq Done) =>
    \A c \in Started :
      (\A d \in Started : d <= c) => runtimeStatusCache = call[c].result

\* C23: when calls overlap, once all of them have completed the cache
\* holds the status of the call started last; and a call that completes
\* returns the status the cache holds at that moment.
C23_LatestCallWins ==
  [][/\ LatestStartedIsCached'
     /\ \A c \in Calls :
          (call'[c].pc = "done" /\ call[c].pc # "done") =>
            runtimeStatusCache' = call'[c].result
    ]_vars

\* C24: for every input the parser returns a consistent triple: a
\* non-null defaultDistro is one of distros; a non-null version comes with
\* a non-null defaultDistro and is the version of a marked row of that
\* name, also when several rows are marked; and with no distros both
\* defaultDistro and version are null.
C24_ParsedTripleIsConsistent ==
  observed.op = "parseWslListOutput" =>
    LET output == host.wslExe.text
        parsed == observed.value
    IN  /\ parsed.defaultDistro # Null =>
             \E i \in 1..Len(parsed.distros) :
               parsed.distros[i] = parsed.defaultDistro[1]
        /\ parsed.version # Null =>
             /\ parsed.defaultDistro # Null
             /\ \E i \in 1..Len(output) :
                  /\ output[i] \in DistroRows
                  /\ startsWithStar(output[i])
                  /\ nameOf(output[i]) = parsed.defaultDistro[1]
                  /\ versionOf(output[i]) \in {"1", "2"}
                  /\ parsed.version = Some(numberOf(versionOf(output[i])))
        /\ parsed.distros = <<>> =>
             parsed.defaultDistro = Null /\ parsed.version = Null

\* The names of the distribution rows of an output, in order.
RECURSIVE namesOfRows(_)
namesOfRows(output) ==
  IF output = <<>> THEN <<>>
  ELSE IF Head(output) \in DistroRows
    THEN <<nameOf(Head(output))>> \o namesOfRows(Tail(output))
    ELSE namesOfRows(Tail(output))

\* C25: the parser drops header rows and nothing else: every line that is
\* a distribution row (name, state, version, with or without a leading *)
\* gives exactly one entry of distros, whatever its name, and no other
\* line, the title row least of all, gives one.
C25_OnlyHeaderRowsAreDropped ==
  observed.op = "parseWslListOutput" =>
    observed.value.distros = namesOfRows(host.wslExe.text)

\* ------------------------------------------------------------------ C26
fileNumber(file) == CHOOSE n \in 1..MaxFiles : FileNames[n] = file

startedInThisSession(e, file) == e.startedIn[fileNumber(file)] = e.session

\* C26: the editable attachment list belongs to one edit session.  After
\* every step it is empty when the message is not in inline-edit mode; a
\* step that enters edit mode leaves it as exactly the items of the
\* message's own attachments; and every added file in the list, or in the
\* newAttachments of a submitted payload, is one whose conversion was
\* started in the current edit session.
C26_ListBelongsToOneSession ==
  [][LET e == editor'
         list == e.editableAttachments
     IN  /\ ~e.isInlineEditing => list = <<>>
         /\ ~editor.isInlineEditing /\ e.isInlineEditing
              => list = existingItems(e.message)
         /\ e.isInlineEditing
              => \A i \in 1..Len(list) :
                   list[i].kind = "new"
                     => startedInThisSession(e, list[i].attachment)
         /\ e.submitted # NoPayload
              => \A i \in 1..Len(e.submitted[1].newAttachments) :
                   startedInThisSession(e, e.submitted[1].newAttachments[i])
    ]_vars

\* ------------------------------------------------------------------ C27
notRemoved(e, prefix, names) ==
  LET kept(name) == <<prefix, name>> \notin e.removed
  IN  SelectSeq(names, kept)

\* C27: a submit is issued only when the trimmed text is not empty or an
\* attachment remains in the list, and its payload partitions the list:
\* keepExistingAttachments is the message's own attachments that were not
\* removed, newAttachments is the added files that were not removed, both
\* in list order, and nothing removed is in either.
C27_PayloadPartitionsTheList ==
  editor.submitted # NoPayload =>
    LET payload == editor.submitted[1]
        keep == payload.keepExistingAttachments
        new == payload.newAttachments
    IN  /\ \/ trimContent(editor.editingContent) # ""
           \/ Len(editor.editableAttachments) > 0
        /\ payload.content = trimContent(editor.editingContent)
        /\ keep = notRemoved(editor, "existing-", editor.message.attachments)
        /\ new = notRemoved(editor, "inline-new-", editor.added)
        /\ Len(keep) + Len(new) = Len(editor.editableAttachments)
        /\ \A i \in 1..Len(keep) : <<"existing-", keep[i]>> \notin editor.removed
        /\ \A i \in 1..Len(new) : <<"inline-new-", new[i]>> \notin editor.removed

C27_Witness ==
  /\ editor.submitted # NoPayload
  /\ editor.editingContent = "  "
  /\ Len(editor.submitted[1].keepExistingAttachments) = 1
  /\ Len(editor.submitted[1].newAttachments) = 1
  /\ \E a \in {"a1", "a2"} : <<"existing-", a>> \in editor.removed
  /\ \E n \in 1..MaxFiles : <<"inline-new-", FileNames[n]>> \in editor.removed

====
